---------------------------- MODULE Spec2Model ----------------------------
(***************************************************************************)
(* A model of the geocities-gallery-scraper pipeline:                      *)
(*   - the content scraper (geocities_scraper.py): main, scrape_hood,      *)
(*     scrape_burb, get_burb_cards, save_hood_data, get_scraped_hoods;     *)
(*   - the flattener (flatten_data.py): flatten_geocities_data.            *)
(* Strings are sequences of character codes, so that the file-name         *)
(* conversions (name + ".json", filename[:-5]) and the lexicographic sort  *)
(* are computed as the code computes them.                                 *)
(***************************************************************************)
EXTENDS Integers, Sequences, FiniteSets, TLC

(***************************************************************************)
(* Bounds of the model.                                                    *)
(***************************************************************************)
\* Number of scraper invocations on the same output directory.
MaxRuns == 2

(***************************************************************************)
(* Strings.                                                                *)
(***************************************************************************)
\* What is falsy for `if args.hood` and for `burbs or ...`: None, and equally
\* the empty string and the empty list.
None == << >>

\* No such file.
Absent == [kind |-> "absent"]

\* ".json"
JsonExt == <<46, 106, 115, 111, 110>>

\* "/"
Slash == <<47>>

\* str.endswith
EndsWith(s, suf) ==
    /\ Len(s) >= Len(suf)
    /\ SubSeq(s, Len(s) - Len(suf) + 1, Len(s)) = suf

\* filename[:-5]
StripExt(filename) == SubSeq(filename, 1, Len(filename) - 5)

Range(s) == {s[i] : i \in DOMAIN s}

(***************************************************************************)
(* The configuration document (geocities_config.json) read by              *)
(* GeocitiesScraper.__init__: base_url and the ordered mapping             *)
(* neighborhoods: hood name -> {description, burbs}.                       *)
(***************************************************************************)
\* "w"
BaseUrl == <<119>>

\* hoods "a" (burbs "x", "y") and "b" (no burbs)
Config ==
    [base_url |-> BaseUrl,
     neighborhoods |->
        << [name |-> <<97>>, description |-> "d1", burbs |-> << <<120>>, <<121>> >>],
           [name |-> <<98>>, description |-> "d2", burbs |-> << >>] >>]

ConfigHoods == [i \in DOMAIN Config.neighborhoods |-> Config.neighborhoods[i].name]

\* hood_name in self.config['neighborhoods']
InConfig(hood_name) == hood_name \in Range(ConfigHoods)

\* self.config['neighborhoods'][hood_name]
HoodInfo(hood_name) ==
    Config.neighborhoods[CHOOSE i \in DOMAIN ConfigHoods : ConfigHoods[i] = hood_name]

\* A hood name that is not configured ("q"), and a burb name that is in no
\* hood's list ("k").
UnknownHood == <<113>>
UnknownBurb == <<107>>

(***************************************************************************)
(* The mirror site: what a successful fetch and parse of a page yields.    *)
(* Each card is {title, url, last_modified, has_sound}.                    *)
(***************************************************************************)
SiteCard(url, i) ==
    [title |-> <<i>>, url |-> url \o <<i>>, last_modified |-> "lm",
     has_sound |-> (i % 2 = 0)]

\* The page of a hood holds one card; the page of a burb holds as many cards
\* as the last character of its name is past "w" (x: 1, y: 2).
SitePage(url) ==
    LET last == url[Len(url)]
        n == IF last > 119 THEN last - 119 ELSE 1
    IN  [i \in 1..n |-> SiteCard(url, i)]

\* A get_burb_cards whose handler returns the page's cards all the same.
get_burb_cards_keep(url, ok) == SitePage(url)

\* get_burb_cards: the cards of the page, or [] when the fetch fails
\* (except Exception: return []).
get_burb_cards(url, ok) == IF ok THEN SitePage(url) ELSE << >>

HoodUrl(hood_name) == BaseUrl \o Slash \o hood_name
BurbUrl(hood_name, burb_name) == BaseUrl \o Slash \o hood_name \o Slash \o burb_name

\* scrape_burb's result for a fetched page.
BurbData(hood_name, burb_name, cards) ==
    [name |-> burb_name, url |-> BurbUrl(hood_name, burb_name),
     cards |-> cards, total_pages |-> Len(cards)]

\* The document scrape_hood assembles, with the metadata save_hood_data adds.
HoodData(hood_name, cards, burbs, now) ==
    [name |-> hood_name,
     description |-> HoodInfo(hood_name).description,
     url |-> HoodUrl(hood_name),
     cards |-> cards,
     total_pages |-> Len(cards),
     burbs |-> burbs,
     total_burbs |-> Len(burbs),
     metadata |-> [scraped_at |-> now, base_url |-> BaseUrl]]

\* os.path.join(self.output_dir, f"{hood_name}.json"), within output_dir
OutputFile(hood_name) == hood_name \o JsonExt

(***************************************************************************)
(* Files.  A file's content is the text written so far: nothing yet (the   *)
(* file was opened for writing and truncated), a proper prefix of the      *)
(* JSON text of a document, or the whole JSON text of a document.          *)
(***************************************************************************)
EmptyFile == [kind |-> "empty"]
PartialFile == [kind |-> "partial"]
CompleteFile(doc) == [kind |-> "complete", doc |-> doc]

\* json.load succeeds on the file
Parsable(content) == content.kind = "complete"

(***************************************************************************)
(* State of the content scraper.                                           *)
(***************************************************************************)
VARIABLES
    disk,            \* geocities_data/: file name -> content
    args,            \* the invocation's arguments: hood, burbs, resume
    pc,              \* position of the process
    scraped_hoods,   \* main: the set returned by get_scraped_hoods(), or set()
    idx,             \* main: position in config['neighborhoods']
    hood,            \* scrape_hood: hood_name
    burbs_arg,       \* scrape_hood: burbs
    hood_cards,      \* scrape_hood: hood_cards
    burbs_to_scrape, \* scrape_hood: burbs_to_scrape
    bi,              \* scrape_hood: position in burbs_to_scrape
    scraped_burbs,   \* scrape_hood: scraped_burbs
    log,             \* what the invocation did so far: fetches, pauses, writes
    disk0,           \* the directory as it was when the invocation started
    runs             \* number of invocations so far; also the clock

svars == <<disk, args, pc, scraped_hoods, idx, hood, burbs_arg, hood_cards,
           burbs_to_scrape, bi, scraped_burbs, log, disk0, runs>>

Terminal == {"done", "failed", "killed"}

\* The command line: --hood, --burbs, --resume.  The burbs asked for are
\* none, or "k" (in no hood's list), "y", "x".
BurbsArgs == {None, << UnknownBurb, <<121>>, <<120>> >>}

ArgSet ==
    [hood : {None}, burbs : {None}, resume : BOOLEAN]
    \cup [hood : {<<97>>}, burbs : BurbsArgs, resume : BOOLEAN]
    \cup [hood : {UnknownHood}, burbs : {None}, resume : {FALSE}]

\* get_scraped_hoods: the stems of the files of output_dir that end in ".json"
get_scraped_hoods(dir) ==
    {StripExt(filename) : filename \in {f \in DOMAIN dir : EndsWith(f, JsonExt)}}

NoFiles == [f \in {} |-> EmptyFile]

WriteFile(dir, f, content) ==
    [g \in DOMAIN dir \cup {f} |-> IF g = f THEN content ELSE dir[g]]

ScraperInit ==
    /\ disk = NoFiles
    /\ disk0 = NoFiles
    /\ args \in ArgSet
    /\ pc = "main"
    /\ scraped_hoods = {}
    /\ idx = 1
    /\ hood = None
    /\ burbs_arg = None
    /\ hood_cards = << >>
    /\ burbs_to_scrape = << >>
    /\ bi = 1
    /\ scraped_burbs = << >>
    /\ log = << >>
    /\ runs = 1

Ev(kind, what) == [e |-> kind, of |-> what]

\* Entering scrape_hood(hood_name, burbs): the locals are fresh.
CallScrapeHood(hood_name, burbs) ==
    /\ hood' = hood_name
    /\ burbs_arg' = burbs
    /\ hood_cards' = << >>
    /\ burbs_to_scrape' = << >>
    /\ bi' = 1
    /\ scraped_burbs' = << >>
    /\ pc' = "scrape_hood"

\* main, lines 172-178: a single hood is scraped whatever --resume says;
\* otherwise the set of scraped hoods is read once, before the loop.
Main ==
    /\ pc = "main"
    /\ IF args.hood # None
       THEN /\ CallScrapeHood(args.hood, args.burbs)
            /\ log' = Append(log, Ev("call", args.hood))
            /\ UNCHANGED <<scraped_hoods, idx>>
       ELSE /\ scraped_hoods' = IF args.resume THEN get_scraped_hoods(disk) ELSE {}
            /\ idx' = 1
            /\ pc' = "loop"
            /\ UNCHANGED <<hood, burbs_arg, hood_cards, burbs_to_scrape, bi,
                           scraped_burbs, log>>
    /\ UNCHANGED <<disk, args, disk0, runs>>

\* A skip test that ignores the set of scraped hoods.
ShouldScrapeAlways(hood_name, scraped) == TRUE

\* What the skip test of main's loop decides for a hood (line 182).
ShouldScrape(hood_name, scraped) == hood_name \notin scraped

\* main, lines 181-192: one iteration of the loop over the configured hoods.
Loop ==
    /\ pc = "loop"
    /\ IF idx > Len(ConfigHoods)
       THEN /\ pc' = "done"
            /\ UNCHANGED <<idx, hood, burbs_arg, hood_cards, burbs_to_scrape, bi,
                           scraped_burbs, log>>
       ELSE IF ShouldScrape(ConfigHoods[idx], scraped_hoods)
            THEN /\ CallScrapeHood(ConfigHoods[idx], None)
                 /\ log' = Append(log, Ev("call", ConfigHoods[idx]))
                 /\ UNCHANGED idx
            ELSE /\ idx' = idx + 1
                 /\ log' = Append(log, Ev("skip", ConfigHoods[idx]))
                 /\ UNCHANGED <<pc, hood, burbs_arg, hood_cards, burbs_to_scrape,
                                bi, scraped_burbs>>
    /\ UNCHANGED <<disk, args, scraped_hoods, disk0, runs>>

\* An exception that is not caught by the loop and ends the run.
RaiseAbort(event) ==
    /\ log' = Append(log, event)
    /\ pc' = "failed"
    /\ UNCHANGED idx

\* An exception leaves scrape_hood: main's loop logs it and continues with the
\* next hood (lines 185-188); for a single hood it leaves main (lines 194-196).
Raise(event) ==
    /\ log' = Append(log, event)
    /\ IF args.hood # None
       THEN pc' = "failed" /\ UNCHANGED idx
       ELSE pc' = "loop" /\ idx' = idx + 1

\* scrape_hood returns.
Return ==
    IF args.hood # None
    THEN pc' = "done" /\ UNCHANGED idx
    ELSE pc' = "loop" /\ idx' = idx + 1

\* scrape_hood, lines 124-125: the hood must be configured.
ScrapeHoodCheck ==
    /\ pc = "scrape_hood"
    /\ IF ~InConfig(hood)
       THEN Raise(Ev("error", [hood |-> hood, at |-> "lookup"]))
       ELSE pc' = "fetch_hood" /\ UNCHANGED <<idx, log>>
    /\ UNCHANGED <<disk, args, scraped_hoods, hood, burbs_arg, hood_cards,
                   burbs_to_scrape, bi, scraped_burbs, disk0, runs>>

\* burbs or hood_info['burbs']: None and [] both select the configured list.
BurbsToScrape(burbs, hood_name) ==
    IF burbs = None THEN HoodInfo(hood_name).burbs ELSE burbs

\* scrape_hood, lines 127-137: the hood's own page, then the list of burbs.
FetchHood ==
    /\ pc = "fetch_hood"
    /\ \E ok \in BOOLEAN :
        /\ hood_cards' = get_burb_cards(HoodUrl(hood), ok)
        /\ log' = Append(log, Ev("fetch", [url |-> HoodUrl(hood), ok |-> ok]))
    /\ burbs_to_scrape' = BurbsToScrape(burbs_arg, hood)
    /\ scraped_burbs' = << >>
    /\ bi' = 1
    /\ pc' = "burbs"
    /\ UNCHANGED <<disk, args, scraped_hoods, idx, hood, burbs_arg, disk0, runs>>

\* A membership test that lets every requested burb through.
BurbKnownAlways(burb_name, hood_name) == TRUE

\* The membership test of line 139.
BurbKnown(burb_name, hood_name) == burb_name \in Range(HoodInfo(hood_name).burbs)

\* scrape_hood, lines 138-144 and 146-154: one iteration of the loop over
\* burbs_to_scrape, up to the pause; after the last burb the document is
\* assembled and save_hood_data is entered.
BurbStep ==
    /\ pc = "burbs"
    /\ IF bi > Len(burbs_to_scrape)
       THEN /\ pc' = "save"
            /\ UNCHANGED <<bi, scraped_burbs, log>>
       ELSE IF BurbKnown(burbs_to_scrape[bi], hood)
            THEN \E ok \in BOOLEAN :
                   LET url == BurbUrl(hood, burbs_to_scrape[bi])
                       cards == get_burb_cards(url, ok)
                   IN  /\ scraped_burbs' =
                              Append(scraped_burbs,
                                     BurbData(hood, burbs_to_scrape[bi], cards))
                       /\ log' = Append(log, Ev("fetch", [url |-> url, ok |-> ok]))
                       /\ pc' = "sleep"
                       /\ UNCHANGED bi
            ELSE /\ bi' = bi + 1
                 /\ log' = Append(log, Ev("warn", burbs_to_scrape[bi]))
                 /\ UNCHANGED <<pc, scraped_burbs>>
    /\ UNCHANGED <<disk, args, scraped_hoods, idx, hood, burbs_arg, hood_cards,
                   burbs_to_scrape, disk0, runs>>

\* time.sleep(1), line 142
Sleep ==
    /\ pc = "sleep"
    /\ log' = Append(log, Ev("sleep", 1))
    /\ bi' = bi + 1
    /\ pc' = "burbs"
    /\ UNCHANGED <<disk, args, scraped_hoods, idx, hood, burbs_arg, hood_cards,
                   burbs_to_scrape, scraped_burbs, disk0, runs>>

\* save_hood_data, line 109: open(output_file, 'w') creates or truncates the
\* file, or fails and leaves the directory as it was.
SaveOpen ==
    /\ pc = "save"
    /\ \E ok \in BOOLEAN :
        IF ok
        THEN /\ disk' = WriteFile(disk, OutputFile(hood), EmptyFile)
             /\ log' = Append(log, Ev("open", hood))
             /\ pc' = "dump"
             /\ UNCHANGED idx
        ELSE /\ Raise(Ev("error", [hood |-> hood, at |-> "open"]))
             /\ UNCHANGED disk
    /\ UNCHANGED <<args, scraped_hoods, hood, burbs_arg, hood_cards,
                   burbs_to_scrape, bi, scraped_burbs, disk0, runs>>

\* save_hood_data, line 110: json.dump writes the text piece by piece into the
\* open file; a write may fail (the exception leaves the pieces written).
SaveDump ==
    /\ pc = "dump"
    /\ disk' = WriteFile(disk, OutputFile(hood), PartialFile)
    /\ \E ok \in BOOLEAN :
        IF ok
        THEN pc' = "close" /\ UNCHANGED <<idx, log>>
        ELSE Raise(Ev("error", [hood |-> hood, at |-> "dump"]))
    /\ UNCHANGED <<args, scraped_hoods, hood, burbs_arg, hood_cards,
                   burbs_to_scrape, bi, scraped_burbs, disk0, runs>>

\* save_hood_data, lines 110-111: the last piece is written and the file is
\* closed; scrape_hood returns.
SaveClose ==
    /\ pc = "close"
    /\ disk' = WriteFile(disk, OutputFile(hood),
                         CompleteFile(HoodData(hood, hood_cards, scraped_burbs, runs)))
    /\ log' = Append(log, Ev("write", hood))
    /\ Return
    /\ UNCHANGED <<args, scraped_hoods, hood, burbs_arg, hood_cards,
                   burbs_to_scrape, bi, scraped_burbs, disk0, runs>>

\* The process is interrupted (a signal, a power cut): nothing in the code
\* runs after it.
Interrupt ==
    /\ pc \notin Terminal
    /\ pc' = "killed"
    /\ UNCHANGED <<disk, args, scraped_hoods, idx, hood, burbs_arg, hood_cards,
                   burbs_to_scrape, bi, scraped_burbs, log, disk0, runs>>

\* The scraper is started again on the same output directory.
Restart ==
    /\ pc \in Terminal
    /\ runs < MaxRuns
    /\ runs' = runs + 1
    /\ args' \in ArgSet
    /\ disk0' = disk
    /\ pc' = "main"
    /\ scraped_hoods' = {}
    /\ idx' = 1
    /\ hood' = None
    /\ burbs_arg' = None
    /\ hood_cards' = << >>
    /\ burbs_to_scrape' = << >>
    /\ bi' = 1
    /\ scraped_burbs' = << >>
    /\ log' = << >>
    /\ UNCHANGED disk

(***************************************************************************)
(* The flattener, flatten_geocities_data(input_dir, output_file,           *)
(* chunk_size).  The output directory holds <base>_metadata.json.gz and    *)
(* <base>_chunk_<i>.json.gz; a chunk file is identified by its index i.    *)
(***************************************************************************)
\* Largest chunk_size tried.
MaxChunkSize == 3

\* Number of flatten runs to the same output base.
MaxFlattenRuns == 2

VARIABLES
    in_dir,       \* input_dir: file name -> content
    chunk_size,   \* chunk_size
    fpc,          \* position of the flatten run
    todo,         \* the files os.listdir has still to yield
    all_pages,    \* all_pages
    hood_names,   \* hood_names
    ci,           \* i of the loop over the chunks
    out_meta,     \* the metadata file, or Absent
    out_chunks,   \* the chunk files: index -> chunk
    spans,        \* per file processed: where its items lie in all_pages
    written,      \* the indices of the chunk files written by this run
    fruns         \* number of flatten runs started; also the clock

fvars == <<in_dir, chunk_size, fpc, todo, all_pages, hood_names, ci, out_meta,
           out_chunks, spans, written, fruns>>

vars == <<svars, fvars>>

\* Lexicographic order of strings, as Python's sorted() compares them.
LexLess(a, b) ==
    \E k \in 0..(IF Len(a) < Len(b) THEN Len(a) ELSE Len(b)) :
        /\ SubSeq(a, 1, k) = SubSeq(b, 1, k)
        /\ \/ k = Len(a) /\ k < Len(b)
           \/ k < Len(a) /\ k < Len(b) /\ a[k + 1] < b[k + 1]

RECURSIVE Descending(_)
\* The names of a set listed from the greatest down.
Descending(S) ==
    IF S = {} THEN << >>
    ELSE LET m == CHOOSE x \in S : \A y \in S \ {x} : LexLess(y, x)
         IN  <<m>> \o Descending(S \ {m})

RECURSIVE Sorted(_)
\* sorted(list(hood_names))
Sorted(S) ==
    IF S = {} THEN << >>
    ELSE LET m == CHOOSE x \in S : \A y \in S \ {x} : LexLess(x, y)
         IN  <<m>> \o Sorted(S \ {m})

\* card.get('has_sound', False)
GetHasSound(card) == IF "has_sound" \in DOMAIN card THEN card.has_sound ELSE FALSE

\* The item of a hood-level card, lines 37-45.
HoodItem(card, hood_name) ==
    [title |-> card.title, url |-> card.url, has_sound |-> GetHasSound(card),
     source |-> [t |-> "h", h |-> hood_name]]

\* A burb item that names the burb as its hood and the hood as its burb.
BurbItemSwapped(card, hood_name, burb_name) ==
    [title |-> card.title, url |-> card.url, has_sound |-> GetHasSound(card),
     source |-> [t |-> "b", h |-> burb_name, b |-> hood_name]]

\* The item of a burb's card, lines 50-59.
BurbItem(card, hood_name, burb_name) ==
    [title |-> card.title, url |-> card.url, has_sound |-> GetHasSound(card),
     source |-> [t |-> "b", h |-> hood_name, b |-> burb_name]]

RECURSIVE BurbItems(_, _)
\* for burb in hood_data['burbs']: for card in burb['cards']: append
BurbItems(burbs, hood_name) ==
    IF burbs = << >> THEN << >>
    ELSE [k \in DOMAIN burbs[1].cards |->
              BurbItem(burbs[1].cards[k], hood_name, burbs[1].name)]
         \o BurbItems(Tail(burbs), hood_name)

\* What the body of the try (lines 32-59) appends to all_pages for a file:
\* nothing when json.load fails; the hood's cards only when the document has
\* no 'burbs' (the KeyError is raised after they were appended); else the
\* hood's cards and then every burb's cards.
Appended(content, hood_name) ==
    IF ~Parsable(content) THEN << >>
    ELSE LET hood_data == content.doc
             own == [k \in DOMAIN hood_data.cards |->
                        HoodItem(hood_data.cards[k], hood_name)]
         IN  IF "burbs" \notin DOMAIN hood_data THEN own
             ELSE own \o BurbItems(hood_data.burbs, hood_name)

\* total_chunks that forgets the last, smaller chunk.
TotalChunksFloor(n, c) == n \div c

\* total_chunks = (len(all_pages) + chunk_size - 1) // chunk_size
TotalChunks(n, c) == (n + c - 1) \div c

Min(a, b) == IF a < b THEN a ELSE b

\* all_pages[start_idx:end_idx] of lines 91-93, for chunk i
Chunk(pages, i, c) == SubSeq(pages, i * c + 1, Min((i + 1) * c, Len(pages)))

\* The metadata of lines 69-75.
Metadata(pages, names, c, now) ==
    [total_pages |-> Len(pages),
     total_hoods |-> Cardinality(names),
     hoods |-> Sorted(names),
     generated_at |-> now,
     chunks |-> TotalChunks(Len(pages), c)]

(***************************************************************************)
(* The input directories tried: documents as the scraper writes them.      *)
(***************************************************************************)
Cards(url, n) == [i \in 1..n |-> SiteCard(url, i)]

\* A card written without has_sound.
OldCard(url, i) == [title |-> <<i>>, url |-> url \o <<i>>, last_modified |-> "lm"]

\* Hood "b": one card of its own, burbs "x" (3 cards) and "y" (5 cards).
DocB ==
    [name |-> <<98>>, description |-> "d", url |-> HoodUrl(<<98>>),
     cards |-> Cards(HoodUrl(<<98>>), 1), total_pages |-> 1,
     burbs |-> << BurbData(<<98>>, <<120>>, Cards(BurbUrl(<<98>>, <<120>>), 3)),
                  BurbData(<<98>>, <<121>>, Cards(BurbUrl(<<98>>, <<121>>), 5)) >>,
     total_burbs |-> 2,
     metadata |-> [scraped_at |-> 1, base_url |-> BaseUrl]]

\* Hood "ab": two cards of its own, no burbs.
DocAB ==
    [name |-> <<97, 98>>, description |-> "d", url |-> HoodUrl(<<97, 98>>),
     cards |-> << OldCard(HoodUrl(<<97, 98>>), 1), SiteCard(HoodUrl(<<97, 98>>), 2) >>,
     total_pages |-> 2, burbs |-> << >>, total_burbs |-> 0,
     metadata |-> [scraped_at |-> 1, base_url |-> BaseUrl]]

\* A JSON document that is no group document: it has no 'burbs'.
DocNoBurbs ==
    [name |-> <<97, 98>>, cards |-> << SiteCard(HoodUrl(<<97, 98>>), 1) >>]

\* "n.txt"
TxtFile == <<110, 46, 116, 120, 116>>

DirChoices ==
    {d \in [{OutputFile(<<98>>), OutputFile(<<97, 98>>), TxtFile} ->
                {Absent, EmptyFile, PartialFile, CompleteFile(DocB),
                 CompleteFile(DocAB), CompleteFile(DocNoBurbs)}] :
        /\ d[OutputFile(<<98>>)] \in {Absent, CompleteFile(DocB)}
        /\ d[OutputFile(<<97, 98>>)] \in
              {Absent, PartialFile, CompleteFile(DocAB), CompleteFile(DocNoBurbs)}
        /\ d[TxtFile] \in {Absent, EmptyFile}}

\* The directories: "b.json" is absent or a document; "ab.json" is absent, a
\* truncated file, a document, or JSON without 'burbs'; "n.txt" may be there.
InputDirs ==
    {[f \in {g \in DOMAIN d : d[g] # Absent} |-> d[f]] : d \in DirChoices}

NoChunks == [i \in {} |-> << >>]

FlattenInit ==
    /\ in_dir = NoFiles
    /\ chunk_size = 1
    /\ fpc = "idle"
    /\ todo = {}
    /\ all_pages = << >>
    /\ hood_names = {}
    /\ ci = 0
    /\ out_meta = Absent
    /\ out_chunks = NoChunks
    /\ spans = << >>
    /\ written = {}
    /\ fruns = 0

\* flatten_geocities_data is called: lines 15-18.
FlattenStart ==
    /\ fpc \in {"idle", "done"}
    /\ fruns < MaxFlattenRuns
    /\ fruns' = fruns + 1
    /\ in_dir' \in InputDirs
    /\ chunk_size' \in 1..MaxChunkSize
    /\ todo' = DOMAIN in_dir'
    /\ all_pages' = << >>
    /\ hood_names' = {}
    /\ spans' = << >>
    /\ written' = {}
    /\ ci' = 0
    /\ fpc' = "read"
    /\ UNCHANGED <<out_meta, out_chunks>>

\* Lines 21-63: one iteration of the loop over os.listdir(input_dir), which
\* yields the files in an order of its own.
FlattenFile ==
    /\ fpc = "read"
    /\ \E filename \in todo :
        /\ todo' = todo \ {filename}
        /\ IF ~EndsWith(filename, JsonExt)
           THEN UNCHANGED <<all_pages, hood_names, spans>>
           ELSE LET hood_name == StripExt(filename)
                    items == Appended(in_dir[filename], hood_name)
                IN  /\ hood_names' = hood_names \cup {hood_name}
                    /\ all_pages' = all_pages \o items
                    /\ spans' = Append(spans, [file |-> filename,
                                               start |-> Len(all_pages),
                                               len |-> Len(items)])
    /\ UNCHANGED <<in_dir, chunk_size, fpc, ci, out_meta, out_chunks, written, fruns>>

\* Lines 65-86: the metadata is computed and written.
FlattenMeta ==
    /\ fpc = "read"
    /\ todo = {}
    /\ out_meta' = Metadata(all_pages, hood_names, chunk_size, fruns)
    /\ ci' = 0
    /\ fpc' = "chunks"
    /\ UNCHANGED <<in_dir, chunk_size, todo, all_pages, hood_names, out_chunks,
                   spans, written, fruns>>

\* Lines 90-98: one iteration of the loop over range(total_chunks).
FlattenChunk ==
    /\ fpc = "chunks"
    /\ ci < TotalChunks(Len(all_pages), chunk_size)
    /\ out_chunks' = [i \in DOMAIN out_chunks \cup {ci} |->
                         IF i = ci THEN Chunk(all_pages, ci, chunk_size)
                         ELSE out_chunks[i]]
    /\ written' = written \cup {ci}
    /\ ci' = ci + 1
    /\ UNCHANGED <<in_dir, chunk_size, fpc, todo, all_pages, hood_names, out_meta,
                   spans, fruns>>

\* Lines 100-102: the loop is over and the function returns.
FlattenReturn ==
    /\ fpc = "chunks"
    /\ ci >= TotalChunks(Len(all_pages), chunk_size)
    /\ fpc' = "done"
    /\ UNCHANGED <<in_dir, chunk_size, todo, all_pages, hood_names, ci, out_meta,
                   out_chunks, spans, written, fruns>>

(***************************************************************************)
(* The specifications: the scraper on its output directory, and the        *)
(* flattener on its input and output directories.                          *)
(***************************************************************************)
ScrapeInit == ScraperInit /\ FlattenInit

ScrapeNext ==
    \/ Main /\ UNCHANGED fvars
    \/ Loop /\ UNCHANGED fvars
    \/ ScrapeHoodCheck /\ UNCHANGED fvars
    \/ FetchHood /\ UNCHANGED fvars
    \/ BurbStep /\ UNCHANGED fvars
    \/ Sleep /\ UNCHANGED fvars
    \/ SaveOpen /\ UNCHANGED fvars
    \/ SaveDump /\ UNCHANGED fvars
    \/ SaveClose /\ UNCHANGED fvars
    \/ Interrupt /\ UNCHANGED fvars
    \/ Restart /\ UNCHANGED fvars

ScrapeSpec == ScrapeInit /\ [][ScrapeNext]_vars

FlattenOnlyInit ==
    /\ ScraperInit
    /\ args = [hood |-> None, burbs |-> None, resume |-> FALSE]
    /\ FlattenInit

FlattenOnlyNext ==
    \/ FlattenStart /\ UNCHANGED svars
    \/ FlattenFile /\ UNCHANGED svars
    \/ FlattenMeta /\ UNCHANGED svars
    \/ FlattenChunk /\ UNCHANGED svars
    \/ FlattenReturn /\ UNCHANGED svars

FlattenSpec == FlattenOnlyInit /\ [][FlattenOnlyNext]_vars

(***************************************************************************)
(* Reading the log.                                                        *)
(***************************************************************************)
IsPrefix(s, t) == Len(s) <= Len(t) /\ SubSeq(t, 1, Len(s)) = s

\* The URLs of a hood's page and of any page below it.
IsPageOf(url, hood_name) ==
    LET h == HoodUrl(hood_name)
    IN  \/ url = h
        \/ IsPrefix(h \o Slash, url)

FetchesOf(hood_name) ==
    {i \in DOMAIN log : log[i].e = "fetch" /\ IsPageOf(log[i].of.url, hood_name)}

WritesOf(hood_name) ==
    {i \in DOMAIN log : log[i].e \in {"open", "write"} /\ log[i].of = hood_name}

Calls == {i \in DOMAIN log : log[i].e = "call"}

\* The end of the part of the log that belongs to the call logged at i: the
\* position before the loop's next decision, or the end of the log.
SegEnd(i) ==
    LET later == {j \in DOMAIN log : j > i /\ log[j].e \in {"call", "skip"}}
    IN  IF later = {} THEN Len(log)
        ELSE (CHOOSE j \in later : \A k \in later : j <= k) - 1

Seg(i) == SubSeq(log, i + 1, SegEnd(i))

FullRun == args.hood = None

\* The burbs requested for the hood of a call.
Requested(h) ==
    IF FullRun \/ Len(args.burbs) = 0 THEN HoodInfo(h).burbs ELSE args.burbs

PersistedAtStart(hood_name) == OutputFile(hood_name) \in DOMAIN disk0

(***************************************************************************)
(* C1.  In a full run with resume enabled, a configured hood whose file    *)
(* <hood>.json exists when the run starts is never fetched (neither its    *)
(* page nor a page of one of its burbs) and its file stays as it was.      *)
(***************************************************************************)
ResumeSkipsPersisted ==
    (FullRun /\ args.resume) =>
        \A h \in Range(ConfigHoods) :
            PersistedAtStart(h) =>
                /\ FetchesOf(h) = {}
                /\ WritesOf(h) = {}
                /\ OutputFile(h) \in DOMAIN disk
                /\ disk[OutputFile(h)] = disk0[OutputFile(h)]

\* A completed resumed run that skipped a persisted hood and scraped another.
ResumeSkipsPersistedWitness ==
    /\ FullRun /\ args.resume /\ pc = "done"
    /\ \E h \in Range(ConfigHoods) : PersistedAtStart(h)
    /\ \E i \in DOMAIN log : log[i].e = "write"

(***************************************************************************)
(* C2.  After an interruption, every hood that get_scraped_hoods() reports *)
(* has a file that holds a complete document.                              *)
(***************************************************************************)
InterruptedFilesComplete ==
    pc = "killed" =>
        \A h \in get_scraped_hoods(disk) : Parsable(disk[OutputFile(h)])

(***************************************************************************)
(* C6.  A failed fetch is not fatal to scrape_hood: the failed page gives  *)
(* an empty card list (total_pages 0), the other burbs are still fetched,  *)
(* no error is raised by a fetch, and the document that is written holds   *)
(* exactly what the fetches gave.                                          *)
(***************************************************************************)
FetchEvents(seg) == SelectSeq(seg, LAMBDA ev : ev.e = "fetch")

CardsAgree(cards, fetch) ==
    /\ ~fetch.of.ok => (cards = << >>)
    /\ fetch.of.ok => (cards = SitePage(fetch.of.url))

FetchFailureNotFatal ==
    \A i \in Calls :
        LET h == log[i].of
            seg == Seg(i)
            fetches == FetchEvents(seg)
            last == IF seg = << >> THEN Ev("none", None) ELSE seg[Len(seg)]
        IN  InConfig(h) =>
              \* an error comes from the persistence step only
              /\ \A k \in DOMAIN seg :
                    seg[k].e = "error" => seg[k].of.at \in {"open", "dump"}
              \* at the persistence step every burb to scrape has been fetched
              /\ (\E k \in DOMAIN seg : seg[k].e \in {"open", "error"}) =>
                    Len(fetches) =
                        1 + Cardinality({j \in DOMAIN Requested(h) :
                              Requested(h)[j] \in Range(HoodInfo(h).burbs)})
              \* the document written holds the result of every fetch
              /\ (last.e = "write" /\ SegEnd(i) = Len(log)) =>
                    /\ OutputFile(h) \in DOMAIN disk
                    /\ Parsable(disk[OutputFile(h)])
                    /\ LET doc == disk[OutputFile(h)].doc
                       IN  /\ doc.name = h
                           /\ Len(doc.burbs) = Len(fetches) - 1
                           /\ CardsAgree(doc.cards, fetches[1])
                           /\ doc.total_pages = Len(doc.cards)
                           /\ \A j \in DOMAIN doc.burbs :
                                /\ CardsAgree(doc.burbs[j].cards, fetches[j + 1])
                                /\ doc.burbs[j].total_pages = Len(doc.burbs[j].cards)
                                /\ fetches[j + 1].of.url = BurbUrl(h, doc.burbs[j].name)

\* A hood with two burbs is written although all three of its fetches failed.
FetchFailureNotFatalWitness ==
    /\ log # << >>
    /\ log[Len(log)].e = "write"
    /\ LET f == FetchEvents(log)
       IN  /\ Len(f) = 3
           /\ \A k \in DOMAIN f : ~f[k].of.ok
    /\ Parsable(disk[OutputFile(hood)])
    /\ disk[OutputFile(hood)].doc.total_pages = 0
    /\ disk[OutputFile(hood)].doc.total_burbs = 2

(***************************************************************************)
(* C7.  In a full run an error raised out of scrape_hood does not end the  *)
(* run: the run never fails, the loop decides every configured hood in     *)
(* configuration order, every hood not skipped is attempted, and the loop  *)
(* ends with "done".                                                       *)
(***************************************************************************)
Decisions == SelectSeq(log, LAMBDA ev : ev.e \in {"call", "skip"})

BatchContinues ==
    FullRun =>
        /\ pc # "failed"
        /\ pc \notin Terminal => ENABLED (Loop \/ Main \/ ScrapeHoodCheck \/ FetchHood
                                           \/ BurbStep \/ Sleep \/ SaveOpen \/ SaveDump
                                           \/ SaveClose)
        /\ Len(Decisions) <= Len(ConfigHoods)
        /\ \A k \in DOMAIN Decisions :
              /\ Decisions[k].of = ConfigHoods[k]
              /\ (Decisions[k].e = "skip") <=>
                     (args.resume /\ PersistedAtStart(ConfigHoods[k]))
        /\ pc = "done" => Len(Decisions) = Len(ConfigHoods)
        /\ (pc = "loop" /\ idx <= Len(ConfigHoods)) => Len(Decisions) = idx - 1

\* A full run that completed after the first hood's scrape raised an error
\* and went on to write the second hood.
BatchContinuesWitness ==
    /\ FullRun /\ pc = "done"
    /\ \E i, j \in DOMAIN log :
          /\ i < j
          /\ log[i].e = "error" /\ log[i].of.hood = ConfigHoods[1]
          /\ log[j].e = "write" /\ log[j].of = ConfigHoods[2]

(***************************************************************************)
(* C9.  The per-group state machine.                                       *)
(***************************************************************************)
RECURSIVE BurbTrace(_, _)
\* For each requested burb: a fetch and a pause if the hood lists it, a
\* warning and no fetch if it does not.
BurbTrace(h, req) ==
    IF req = << >> THEN << >>
    ELSE (IF req[1] \in Range(HoodInfo(h).burbs)
          THEN << [e |-> "fetch", url |-> BurbUrl(h, req[1])], [e |-> "sleep"] >>
          ELSE << [e |-> "warn"] >>)
         \o BurbTrace(h, Tail(req))

\* The hood's page, the burbs, and then the one write of the document.
ExpectedTrace(h) ==
    << [e |-> "fetch", url |-> HoodUrl(h)] >> \o BurbTrace(h, Requested(h))
        \o << [e |-> "open"], [e |-> "write"] >>

Shape(ev) ==
    IF ev.e = "fetch" THEN [e |-> "fetch", url |-> ev.of.url] ELSE [e |-> ev.e]

\* What a call did, without a trailing error of the persistence step.
Did(i) ==
    LET seg == Seg(i)
        body == IF seg # << >> /\ seg[Len(seg)].e = "error"
                THEN SubSeq(seg, 1, Len(seg) - 1) ELSE seg
    IN  [k \in DOMAIN body |-> Shape(body[k])]

\* The call logged at i has returned or raised.
Over(i) == SegEnd(i) < Len(log) \/ pc \in {"loop", "done", "failed"}

Raised(i) == \E k \in DOMAIN Seg(i) : Seg(i)[k].e = "error"

StateMachine ==
    \* a full run with resume skips the hoods persisted at its start, and
    \* nothing else is ever skipped
    /\ \A h \in Range(ConfigHoods) :
          (FullRun /\ args.resume /\ PersistedAtStart(h)) =>
              (FetchesOf(h) = {} /\ WritesOf(h) = {})
    /\ \A k \in DOMAIN log : log[k].e = "skip" =>
          (FullRun /\ args.resume /\ PersistedAtStart(log[k].of))
    \* a hood that is not skipped goes through the fetches in order and
    \* is written once, after the last burb
    /\ \A i \in Calls :
          InConfig(log[i].of) =>
              /\ IsPrefix(Did(i), ExpectedTrace(log[i].of))
              /\ (Over(i) /\ ~Raised(i)) => Did(i) = ExpectedTrace(log[i].of)
              /\ (FullRun /\ args.resume) => ~PersistedAtStart(log[i].of)

\* The hood's file held a complete document when the invocation started.
DocumentAtStart(hood_name) ==
    /\ PersistedAtStart(hood_name)
    /\ Parsable(disk0[OutputFile(hood_name)])

\* As claimed: with resume, a single-hood invocation skips a persisted hood
\* too, with no fetch and no write.
StateMachineAnyInvocation ==
    /\ StateMachine
    /\ (~FullRun /\ args.resume /\ InConfig(args.hood) /\ DocumentAtStart(args.hood)) =>
          (FetchesOf(args.hood) = {} /\ WritesOf(args.hood) = {})

\* Amended: resume is consulted by a full run only; a single-hood invocation
\* always scrapes the hood.
StateMachineFullRunResume ==
    /\ StateMachine
    /\ (~FullRun /\ InConfig(args.hood) /\ pc \in {"done", "failed"}) =>
          (FetchesOf(args.hood) # {})

\* A single-hood invocation with --resume and --burbs k y x on a hood whose
\* document is persisted: the hood is scraped again, "k" is not fetched, and
\* the document is written.
StateMachineWitness ==
    /\ ~FullRun /\ args.resume /\ pc = "done"
    /\ PersistedAtStart(args.hood)
    /\ args.burbs = << UnknownBurb, <<121>>, <<120>> >>
    /\ Cardinality(FetchesOf(args.hood)) = 3
    /\ \E k \in DOMAIN log : log[k].e = "warn"
    /\ log[Len(log)].e = "write"


(***************************************************************************)
(* Reading a flatten run.                                                  *)
(***************************************************************************)
JsonFiles == {f \in DOMAIN in_dir : EndsWith(f, JsonExt)}

\* The files that hold a group document: JSON with cards and burbs.
GroupFiles ==
    {f \in JsonFiles : Parsable(in_dir[f]) /\ "burbs" \in DOMAIN in_dir[f].doc}

RECURSIVE SumOver(_, _)
\* The sum of f[x] over the x of S.
SumOver(S, f) ==
    IF S = {} THEN 0
    ELSE LET x == CHOOSE y \in S : TRUE
         IN  f[x] + SumOver(S \ {x}, f)

\* Number of cards of a document: its own and those of its burbs.
CardCount(doc) ==
    Len(doc.cards) + SumOver(DOMAIN doc.burbs, [j \in DOMAIN doc.burbs |-> Len(doc.burbs[j].cards)])

RECURSIVE ConcatChunks(_, _)
\* The chunk files with indices from, from + 1, ..., to - 1, one after another.
ConcatChunks(from, to) ==
    IF from >= to THEN << >>
    ELSE out_chunks[from] \o ConcatChunks(from + 1, to)

\* The least k with k * c >= n.
Ceil(n, c) == CHOOSE k \in 0..n : k * c >= n /\ \A m \in 0..n : m * c >= n => k <= m

(***************************************************************************)
(* C3.  A flatten run of n items with chunk size c >= 1 writes the chunk   *)
(* files 0 .. ceil(n/c)-1 and no other; chunk i holds the items at         *)
(* positions [i*c, min((i+1)*c, n)); every chunk has c items except        *)
(* possibly the last; the chunks in index order give the sequence back.    *)
(***************************************************************************)
ChunkLayout ==
    fpc = "done" =>
        LET n == Len(all_pages)
            c == chunk_size
            k == Ceil(n, c)
        IN  /\ written = 0..(k - 1)
            /\ \A i \in written :
                  /\ i \in DOMAIN out_chunks
                  /\ Len(out_chunks[i]) = (IF (i + 1) * c <= n THEN c ELSE n - i * c)
                  /\ \A j \in DOMAIN out_chunks[i] :
                        out_chunks[i][j] = all_pages[i * c + j]
                  /\ i < k - 1 => Len(out_chunks[i]) = c
                  /\ i = k - 1 =>
                        Len(out_chunks[i]) = (IF n % c = 0 THEN c ELSE n % c)
            /\ ConcatChunks(0, k) = all_pages

\* A run whose last chunk is smaller than the others.
ChunkLayoutWitness ==
    /\ fpc = "done"
    /\ Len(all_pages) % chunk_size # 0
    /\ Cardinality(written) >= 3
    /\ chunk_size >= 2

(***************************************************************************)
(* C4.  After a flatten run the metadata agrees with the chunks written    *)
(* and with the input: total_pages is the sum of the chunk lengths, chunks *)
(* the number of chunk files written, total_hoods the number of distinct   *)
(* names of the .json files and the length of hoods, and hoods is sorted   *)
(* in strictly increasing lexicographic order.                             *)
(***************************************************************************)
MetadataAgrees ==
    fpc = "done" =>
        /\ out_meta.total_pages = SumOver(written, [i \in written |-> Len(out_chunks[i])])
        /\ out_meta.chunks = Cardinality(written)
        /\ out_meta.total_hoods = Cardinality({StripExt(f) : f \in JsonFiles})
        /\ out_meta.total_hoods = Len(out_meta.hoods)
        /\ Range(out_meta.hoods) = {StripExt(f) : f \in JsonFiles}
        /\ \A i, j \in DOMAIN out_meta.hoods :
              i < j => LexLess(out_meta.hoods[i], out_meta.hoods[j])

\* A run that met "b.json" before "ab.json" and lists "ab" before "b".
MetadataAgreesWitness ==
    /\ fpc = "done"
    /\ Len(spans) = 2
    /\ spans[1].file = OutputFile(<<98>>)
    /\ out_meta.hoods = << <<97, 98>>, <<98>> >>
    /\ out_meta.total_pages > 0

(***************************************************************************)
(* C5.  With one .json file that cannot be parsed beside valid group       *)
(* files, the output holds exactly the items of the valid groups, and the  *)
(* name of the corrupt file is neither in hoods nor counted in total_hoods.*)
(***************************************************************************)
CorruptFileLeftOut ==
    LET corrupt == {f \in JsonFiles : ~Parsable(in_dir[f])}
    IN  (/\ fpc = "done"
         /\ Cardinality(corrupt) = 1
         /\ GroupFiles # {}
         /\ JsonFiles \ corrupt = GroupFiles) =>
            /\ Len(all_pages) = SumOver(GroupFiles, [f \in GroupFiles |-> CardCount(in_dir[f].doc)])
            /\ \A k \in DOMAIN all_pages :
                  all_pages[k].source.h \in {StripExt(f) : f \in GroupFiles}
            /\ \A f \in corrupt : StripExt(f) \notin Range(out_meta.hoods)
            /\ out_meta.total_hoods = Cardinality(GroupFiles)

(***************************************************************************)
(* C8.  A group document that is processed gives one item per card of the  *)
(* hood, tagged t = 'h' with h the group name and no b, and then one item  *)
(* per card of each burb, in burb order and card order, tagged t = 'b'     *)
(* with h the group name and b the burb's name; the number of its items is *)
(* len(cards) plus the sum of len(burb.cards); b is present only when      *)
(* t = 'b'.                                                                *)
(***************************************************************************)
SameCard(item, card) ==
    /\ item.title = card.title
    /\ item.url = card.url
    /\ item.has_sound = ("has_sound" \in DOMAIN card /\ card.has_sound)
    /\ DOMAIN item = {"title", "url", "has_sound", "source"}

FlattenedItems ==
    /\ \A s \in DOMAIN spans :
          spans[s].file \in GroupFiles =>
              LET doc == in_dir[spans[s].file].doc
                  name == StripExt(spans[s].file)
                  at == spans[s].start
                  nh == Len(doc.cards)
                  Before(j) == nh + SumOver({m \in DOMAIN doc.burbs : m < j},
                                            [m \in DOMAIN doc.burbs |->
                                                Len(doc.burbs[m].cards)])
              IN  /\ name = doc.name
                  /\ spans[s].len = CardCount(doc)
                  /\ at + spans[s].len <= Len(all_pages)
                  /\ \A k \in 1..nh :
                        /\ SameCard(all_pages[at + k], doc.cards[k])
                        /\ all_pages[at + k].source = [t |-> "h", h |-> name]
                  /\ \A j \in DOMAIN doc.burbs :
                        \A k \in DOMAIN doc.burbs[j].cards :
                            /\ SameCard(all_pages[at + Before(j) + k],
                                        doc.burbs[j].cards[k])
                            /\ all_pages[at + Before(j) + k].source =
                                   [t |-> "b", h |-> name, b |-> doc.burbs[j].name]
    /\ \A k \in DOMAIN all_pages :
          ("b" \in DOMAIN all_pages[k].source) <=> (all_pages[k].source.t = "b")

\* The document with 1 card of its own and burbs of 3 and 5 cards, processed
\* after another file: 9 items, 1 tagged 'h', 8 tagged 'b', split 3 and 5.
FlattenedItemsWitness ==
    \E s \in DOMAIN spans :
        /\ spans[s].file = OutputFile(<<98>>)
        /\ spans[s].start = 2
        /\ spans[s].len = 9
        /\ LET mine == {k \in DOMAIN all_pages : all_pages[k].source.h = <<98>>}
           IN  /\ Cardinality({k \in mine : all_pages[k].source.t = "h"}) = 1
               /\ Cardinality({k \in mine : all_pages[k].source.t = "b"
                                  /\ all_pages[k].source.b = <<120>>}) = 3
               /\ Cardinality({k \in mine : all_pages[k].source.t = "b"
                                  /\ all_pages[k].source.b = <<121>>}) = 5

(***************************************************************************)
(* C10.  After any sequence of flatten runs to the same output base, the   *)
(* chunk files on disk are exactly those with indices 0 .. chunks-1 of the *)
(* latest run's metadata, each holding the latest run's data.              *)
(***************************************************************************)
OutputFullyRegenerated ==
    fpc = "done" =>
        /\ DOMAIN out_chunks = 0..(out_meta.chunks - 1)
        /\ \A i \in DOMAIN out_chunks :
              out_chunks[i] = Chunk(all_pages, i, chunk_size)

=============================================================================
